---- MODULE Spec2Model ----
(***************************************************************************)
(* Process supervisor of HadziqM/myrustlib: the process registry           *)
(* (AppRuntime, three variants: appflow, appflow-std, appruntime) and the  *)
(* lifecycle orchestrator (trait Appflow, two variants: appflow-std with   *)
(* threads and a channel, appflow with tokio::select!).                    *)
(***************************************************************************)
EXTENDS Integers, Sequences, FiniteSets, TLC

\* ---------------------------------------------------------------- bounds
NumThreads == 2
NumIds == 2
MaxChildren == 2
MaxChildrenConc == 1
NumIdsDeep == 1
MaxChildrenAll == 1
MaxChildrenDeep == 3
MaxDrops == 2

NumClients == 2
MaxArgs == 2
Threads == 1..NumThreads
Clients == 1..NumClients
Ids == 1..NumIds
None == 0
Variants == {"appflow", "std", "appruntime"}

VARIABLES
    variant,    \* which crate's AppRuntime is modelled
    apps,       \* IndexMap<String, AppProcess>: sequence in insertion order
    children,   \* every OS process spawned so far; a Child handle is its index
    writer,     \* RwLock: thread holding the write guard, or None
    readers,    \* RwLock: threads holding a read guard
    th,         \* per caller: position inside the operation it is running
    ret,        \* what the step just taken returned to its caller, if it was a return
    callers,    \* the threads or tasks that call into the registry
    observed,   \* the callers whose results are recorded in ret
    ids,        \* the ids the callers pass to the registry
    api,        \* the operations the callers use
    cap,        \* how many processes the OS lets the registry spawn in all
    dropCalls,  \* number of times Drop::drop of AppRuntime has been entered
    flow,       \* which crate's Appflow drives the application, "none" without one
    initpc,     \* position of Appflow::init
    mainpc,     \* position of main_process (a thread in std, a future in tokio)
    chan,       \* std: the mpsc channel; tokio: signals seen by signal::ctrl_c()
    handlerSet, \* std: ctrlc::set_handler succeeded
    signals,    \* number of termination signals sent to the process so far
    cleanups,   \* every invocation of cleanup(): who made it, and whether it is over
    arcs,       \* strong count of the Arc that owns the application
    relaunch,   \* result of restart()'s spawn of the replacement process
    update,     \* result of update()'s updater.update()
    exited,     \* "no" while the supervising process lives, else how it ended
    outcome,    \* what ended init's wait
    started,    \* main_process has started its children
    transport,  \* which service crate is modelled: "tcp", "unix", "none" without one
    conns,      \* per client: its send_request and the server's side of its connection
    acceptor,   \* the server's accept loop: "accept", the connection it reads, or "ended"
    argv,       \* std::env::args() of the supervising process, program name first
    newargv     \* argument vector of the process restart() spawned, <<>> when none

regvars == <<variant, apps, children, writer, readers, th, ret, callers, observed, ids, api, cap, dropCalls>>
orchvars == <<flow, initpc, mainpc, chan, handlerSet, signals, cleanups, arcs,
              relaunch, update, exited, outcome, started>>
sockvars == <<transport, conns, acceptor>>
envvars == <<argv, newargv>>
vars == <<variant, apps, children, writer, readers, th, ret, callers, observed, ids, api, cap, dropCalls,
          flow, initpc, mainpc, chan, handlerSet, signals, cleanups, arcs,
          relaunch, update, exited, outcome, started, transport, conns, acceptor,
          argv, newargv>>

\* ------------------------------------------------------- data structures

\* mutation of DefaultStatus: #[default] put on Running in every crate
DefaultStatusRunning(v) == "Running"

\* #[default] of ProcessStatus: Running in appflow, Stopped elsewhere
DefaultStatus(v) == IF v = "appflow" THEN "Running" ELSE "Stopped"

\* mutation of AppProcessNew: a fresh AppProcess says Running
AppProcessNewRunning(v, id) == [id |-> id, process |-> None, status |-> "Running"]

\* AppProcess::new(id, command, args): the other fields take their Default
AppProcessNew(v, id) == [id |-> id, process |-> None, status |-> DefaultStatus(v)]

\* IndexMap::get_index_of: position of the key, 0 when absent
IndexOf(m, id) ==
    IF \E k \in 1..Len(m) : m[k].id = id
    THEN CHOOSE k \in 1..Len(m) : m[k].id = id
    ELSE 0

\* mutation of Insert: an existing key is removed and appended again
InsertMovesToEnd(m, app) ==
    Append(SelectSeq(m, LAMBDA e : e.id # app.id), app)

\* IndexMap::insert: a new key is appended, an existing key keeps its
\* position and has its value replaced
Insert(m, app) ==
    IF IndexOf(m, app.id) = 0
    THEN Append(m, app)
    ELSE [m EXCEPT ![IndexOf(m, app.id)] = app]

\* Command::new(command).args(args).spawn(): one more OS process.  upd is
\* TRUE when "--update" was pushed onto the argument vector.
\* code is the exit code, success or failure, once the process has ended;
\* the code reads the one of the "--update" run only (wait's ExitStatus)
ExitCodes == {0, 1}

SpawnChild(ch, upd) ==
    Append(ch, [alive |-> TRUE, upd |-> upd, gone |-> FALSE, code |-> 0])

\* The OS refuses to create a process once the process table is full;
\* otherwise spawn may succeed or fail.
SpawnOutcomes == IF Len(children) < cap THEN {TRUE, FALSE} ELSE {FALSE}

\* the operations that ask the OS about a handle (try_wait, wait)
PollOps == {"update_status", "wait_for_exit"}

\* a successful Child::kill on handle p: the process is no longer alive.
\* std::process::Child::kill returns once the signal is sent, and the OS
\* reports the exit (gone) when the process has actually ended;
\* tokio::process::Child::kill awaits the exit before it returns.  Where
\* no caller polls a handle that moment cannot be observed, and the exit
\* is reported at once
KillChild(ch, p) ==
    [ch EXCEPT ![p].alive = FALSE,
               ![p].gone = IF variant # "std" \/ api \cap PollOps = {}
                           THEN TRUE ELSE @]

\* Child::try_wait on handle p: Err, Ok(Some(status)) or Ok(None)
TryWait(ch, p, ok) ==
    IF ~ok THEN "error" ELSE IF ch[p].gone THEN "exited" ELSE "running"

\* mutation of StopEntry: the status is not looked at, the handle is
\* killed whenever there is one
StopEntryAnyStatus(m, ch, i, killOk) ==
    IF m[i].process # None /\ ~killOk
    THEN [apps |-> m, children |-> ch, err |-> TRUE]
    ELSE [apps |-> [m EXCEPT ![i].status = "Stopped"],
          children |-> IF m[i].process # None
                       THEN KillChild(ch, m[i].process) ELSE ch,
          err |-> FALSE]

\* body of stop_process / stop_all for one entry (appruntime: fn stop)
StopEntry(m, ch, i, killOk) ==
    IF m[i].status = "Running"
    THEN IF m[i].process # None /\ ~killOk
         THEN [apps |-> m, children |-> ch, err |-> TRUE]
         ELSE [apps |-> [m EXCEPT ![i].status = "Stopped"],
               children |-> IF m[i].process # None
                            THEN KillChild(ch, m[i].process) ELSE ch,
               err |-> FALSE]
    ELSE [apps |-> m, children |-> ch, err |-> FALSE]

\* mutation of KillIfRunning: the old process is left alone
KillIfRunningNoKill(m, ch, i, killOk) == [children |-> ch, err |-> FALSE]

\* first half of restart: kill the old process when the entry is Running
KillIfRunning(m, ch, i, killOk) ==
    IF m[i].status = "Running" /\ m[i].process # None
    THEN IF killOk
         THEN [children |-> KillChild(ch, m[i].process), err |-> FALSE]
         ELSE [children |-> ch, err |-> TRUE]
    ELSE [children |-> ch, err |-> FALSE]

\* mutation of SpawnEntry: the handle is stored, the status is not set
SpawnEntryStatusNotSet(m, ch, i, spawnOk) ==
    IF spawnOk
    THEN [apps |-> [m EXCEPT ![i].process = Len(ch) + 1],
          children |-> SpawnChild(ch, FALSE),
          err |-> FALSE]
    ELSE [apps |-> m, children |-> ch, err |-> TRUE]

\* second half of restart, and the body of start_all: spawn, store the
\* handle, set Running
SpawnEntry(m, ch, i, spawnOk) ==
    IF spawnOk
    THEN [apps |-> [m EXCEPT ![i].process = Len(ch) + 1, ![i].status = "Running"],
          children |-> SpawnChild(ch, FALSE),
          err |-> FALSE]
    ELSE [apps |-> m, children |-> ch, err |-> TRUE]

\* ------------------------------------------------------------ operations

ReadOps == {"check_status", "list_status"}
BatchOps == {"start_all", "restart_all", "version_update_all", "stop_all",
             "list_status", "update_status", "wait_for_exit"}
SpawnFirstOps == {"add_process_then_run"}

OpsOf(v) ==
    IF v = "appflow"
    THEN {"add_process", "restart_process", "stop_process", "check_status",
          "update_status"}
    ELSE {"add_process", "add_process_then_run", "start_all", "restart_process",
          "restart_all", "stop_process", "stop_all", "check_status", "list_status",
          "update_status", "wait_for_exit"}
         \cup (IF v = "appruntime"
               THEN {"version_update_process", "version_update_all"}
               ELSE {})

\* every operation of some crate; the two that poll or wait for the OS
AllOps == OpsOf("appflow") \cup OpsOf("std") \cup OpsOf("appruntime")

\* appflow's add_process spawns before it takes the lock, like
\* add_process_then_run of the other two crates
SpawnsFirst(v, op) == op \in SpawnFirstOps \/ (v = "appflow" /\ op = "add_process")

Idle == [pc |-> "idle", op |-> "none", id |-> None, i |-> 1, pid |-> None,
         nest |-> FALSE]

\* no operation returned in the step just taken
NoRet == [t |-> None, op |-> "none", id |-> None, val |-> "none", list |-> <<>>]

\* `return`: the caller has its result (val; list for list_status) and is
\* free to issue the next operation
Return(t, op, id, r, l) ==
    /\ th' = [th EXCEPT ![t] = Idle]
    /\ ret' = IF t \in observed
              THEN [t |-> t, op |-> op, id |-> id, val |-> r, list |-> l]
              ELSE NoRet

\* any other step of caller t: on to the next statement of its operation
Step(t, rec) ==
    /\ th' = [th EXCEPT ![t] = rec]
    /\ ret' = NoRet

\* the spawn of add_process (appflow) / add_process_then_run, done before
\* the lock is taken; `?` returns the error
SpawnFirst(t) ==
    /\ t \in callers
    /\ th[t].pc = "idle"
    /\ dropCalls = 0
    /\ \E op \in {o \in OpsOf(variant) \cap api : SpawnsFirst(variant, o)},
          id \in ids :
       \E ok \in SpawnOutcomes :
          IF ok
          THEN /\ children' = SpawnChild(children, FALSE)
               /\ Step(t, [Idle EXCEPT !.pc = "acq", !.op = op,
                                              !.id = id, !.pid = Len(children) + 1])
          ELSE /\ Return(t, op, id, "SubProcess", <<>>)
               /\ UNCHANGED children
    /\ UNCHANGED <<variant, apps, writer, readers, dropCalls, callers, observed, ids, api, cap>>
    /\ UNCHANGED orchvars
    /\ UNCHANGED envvars
    /\ UNCHANGED sockvars

\* a caller that panicked: its thread is over
Panicked == [Idle EXCEPT !.pc = "panicked"]

\* std::sync::RwLock is poisoned once a thread has panicked with the write
\* guard out (only appflow-std panics under the guard); write().unwrap()
\* and read().unwrap() panic from then on
Poisoned == \E t \in Threads : th[t].pc = "panicked"

\* self.apps.write(), the first statement of a mutating operation (or the
\* one after its spawn): granted when no guard of either kind is out
AcquireWrite(t) ==
    /\ writer = None
    /\ readers = {}
    /\ IF Poisoned
       THEN /\ \/ th[t].pc = "acq" /\ th[t].op \notin ReadOps
               \/ t \in callers /\ th[t].pc = "idle" /\ dropCalls = 0
            /\ writer' = writer
            /\ Step(t, Panicked)
       ELSE /\ writer' = t
            /\ \/ /\ th[t].pc = "acq"
                  /\ th[t].op \notin ReadOps
                  /\ Step(t, [th[t] EXCEPT !.pc = "in"])
               \/ /\ t \in callers
                  /\ th[t].pc = "idle"
                  /\ dropCalls = 0
                  /\ \E op \in {o \in (OpsOf(variant) \cap api) \ ReadOps :
                                     ~SpawnsFirst(variant, o)} :
                     \E id \in (IF op \in BatchOps THEN {None} ELSE ids) :
                        Step(t, [Idle EXCEPT !.pc = "in", !.op = op, !.id = id])
    /\ UNCHANGED <<variant, apps, children, readers, dropCalls, callers, observed, ids, api, cap>>
    /\ UNCHANGED orchvars
    /\ UNCHANGED envvars
    /\ UNCHANGED sockvars

\* mutation of AcquireRead: a read guard is granted while the write guard
\* is out
AcquireReadWhileWritten(t) ==
    /\ t \in callers
    /\ th[t].pc = "idle"
    /\ dropCalls = 0
    /\ IF Poisoned
       THEN /\ Step(t, Panicked)
            /\ readers' = readers
       ELSE /\ \E op \in OpsOf(variant) \cap api \cap ReadOps :
               \E id \in (IF op \in BatchOps THEN {None} ELSE ids) :
                  Step(t, [Idle EXCEPT !.pc = "in", !.op = op, !.id = id])
            /\ readers' = readers \cup {t}
    /\ UNCHANGED <<variant, apps, children, writer, dropCalls, callers, observed, ids, api, cap>>
    /\ UNCHANGED orchvars
    /\ UNCHANGED envvars
    /\ UNCHANGED sockvars

\* self.apps.read(), the first statement of check_status and list_status:
\* granted when no write guard is out
AcquireRead(t) ==
    /\ t \in callers
    /\ writer = None
    /\ th[t].pc = "idle"
    /\ dropCalls = 0
    /\ IF Poisoned
       THEN /\ Step(t, Panicked)
            /\ readers' = readers
       ELSE /\ \E op \in OpsOf(variant) \cap api \cap ReadOps :
               \E id \in (IF op \in BatchOps THEN {None} ELSE ids) :
                  Step(t, [Idle EXCEPT !.pc = "in", !.op = op, !.id = id])
            /\ readers' = readers \cup {t}
    /\ UNCHANGED <<variant, apps, children, writer, dropCalls, callers, observed, ids, api, cap>>
    /\ UNCHANGED orchvars
    /\ UNCHANGED envvars
    /\ UNCHANGED sockvars

\* mutation of AddProcess: the insert works on a map read before another
\* caller's insert, whose entry is overwritten
AddProcessLosesUpdate(t) ==
    /\ th[t].pc = "in"
    /\ th[t].op = "add_process"
    /\ apps' = Insert(SubSeq(apps, 1, Len(apps) - 1),
                      [AppProcessNew(variant, th[t].id) EXCEPT !.process = th[t].pid])
    /\ writer' = None
    /\ Return(t, th[t].op, th[t].id, "Ok", <<>>)
    /\ UNCHANGED <<variant, children, readers, dropCalls, callers, observed, ids, api, cap>>
    /\ UNCHANGED orchvars
    /\ UNCHANGED envvars
    /\ UNCHANGED sockvars

\* add_process: insert under the write guard
AddProcess(t) ==
    /\ th[t].pc = "in"
    /\ th[t].op = "add_process"
    /\ apps' = Insert(apps, [AppProcessNew(variant, th[t].id) EXCEPT !.process = th[t].pid])
    /\ writer' = None
    /\ Return(t, th[t].op, th[t].id, "Ok", <<>>)
    /\ UNCHANGED <<variant, children, readers, dropCalls, callers, observed, ids, api, cap>>
    /\ UNCHANGED orchvars
    /\ UNCHANGED envvars
    /\ UNCHANGED sockvars

\* mutation of AddProcessThenRun: app.status is not set before the insert
AddProcessThenRunStatusNotSet(t) ==
    /\ th[t].pc = "in"
    /\ th[t].op = "add_process_then_run"
    /\ apps' = Insert(apps, [AppProcessNew(variant, th[t].id) EXCEPT
                                !.process = th[t].pid])
    /\ writer' = None
    /\ Return(t, th[t].op, th[t].id, "Ok", <<>>)
    /\ UNCHANGED <<variant, children, readers, dropCalls, callers, observed, ids, api, cap>>
    /\ UNCHANGED orchvars
    /\ UNCHANGED envvars
    /\ UNCHANGED sockvars

\* add_process_then_run: the entry is inserted Running with its handle
AddProcessThenRun(t) ==
    /\ th[t].pc = "in"
    /\ th[t].op = "add_process_then_run"
    /\ apps' = Insert(apps, [AppProcessNew(variant, th[t].id) EXCEPT
                                !.process = th[t].pid, !.status = "Running"])
    /\ writer' = None
    /\ Return(t, th[t].op, th[t].id, "Ok", <<>>)
    /\ UNCHANGED <<variant, children, readers, dropCalls, callers, observed, ids, api, cap>>
    /\ UNCHANGED orchvars
    /\ UNCHANGED envvars
    /\ UNCHANGED sockvars

\* mutation of StartAll: a failed spawn is passed over and the loop goes on
StartAllSkipsFailed(t) ==
    /\ th[t].pc = "in"
    /\ th[t].op = "start_all"
    /\ IF th[t].i > Len(apps)
       THEN /\ writer' = None
            /\ Return(t, th[t].op, th[t].id, "Ok", <<>>)
            /\ UNCHANGED <<apps, children>>
       ELSE \E ok \in SpawnOutcomes :
               LET r == SpawnEntry(apps, children, th[t].i, ok) IN
               /\ apps' = r.apps
               /\ children' = r.children
               /\ writer' = writer
               /\ Step(t, [th[t] EXCEPT !.i = @ + 1])
    /\ UNCHANGED <<variant, readers, dropCalls, callers, observed, ids, api, cap>>
    /\ UNCHANGED orchvars
    /\ UNCHANGED envvars
    /\ UNCHANGED sockvars

\* start_all: one iteration of the loop, or the return after the last one
StartAll(t) ==
    /\ th[t].pc = "in"
    /\ th[t].op = "start_all"
    /\ IF th[t].i > Len(apps)
       THEN /\ writer' = None
            /\ Return(t, th[t].op, th[t].id, "Ok", <<>>)
            /\ UNCHANGED <<apps, children>>
       ELSE \E ok \in SpawnOutcomes :
               LET r == SpawnEntry(apps, children, th[t].i, ok) IN
               /\ apps' = r.apps
               /\ children' = r.children
               /\ IF r.err
                  THEN /\ writer' = None
                       /\ Return(t, th[t].op, th[t].id, "SubProcess", <<>>)
                  ELSE /\ writer' = writer
                       /\ Step(t, [th[t] EXCEPT !.i = @ + 1])
    /\ UNCHANGED <<variant, readers, dropCalls, callers, observed, ids, api, cap>>
    /\ UNCHANGED orchvars
    /\ UNCHANGED envvars
    /\ UNCHANGED sockvars

\* mutation of RestartEntry: the entry is set Stopped once its process is
\* killed, before the spawn
RestartEntryStoppedAfterKill(m, ch, i, killOk, spawnOk) ==
    LET k == KillIfRunning(m, ch, i, killOk) IN
    IF k.err
    THEN [apps |-> m, children |-> ch, err |-> TRUE]
    ELSE SpawnEntry([m EXCEPT ![i].status = "Stopped"], k.children, i, spawnOk)

\* restart_process / restart_all of appflow-std for one entry: kill when
\* Running, then spawn; each `?` returns early
RestartEntry(m, ch, i, killOk, spawnOk) ==
    LET k == KillIfRunning(m, ch, i, killOk) IN
    IF k.err
    THEN [apps |-> m, children |-> ch, err |-> TRUE]
    ELSE SpawnEntry(m, k.children, i, spawnOk)

\* appruntime's fn restart and fn ver_update, up to the wait: kill when
\* Running, then spawn the run that has "--update" appended
VerifyStart(m, ch, i, killOk, spawnOk) ==
    LET k == KillIfRunning(m, ch, i, killOk) IN
    IF k.err
    THEN [children |-> ch, err |-> TRUE]
    ELSE IF spawnOk
         THEN [children |-> SpawnChild(k.children, TRUE), err |-> FALSE]
         ELSE [children |-> k.children, err |-> TRUE]

\* mutation of EntryDone: the guard is taken per entry, so a batch lets
\* go of the lock between two entries
EntryDoneUnlocked(t, err, batch) ==
    IF err
    THEN /\ writer' = None
         /\ Return(t, th[t].op, th[t].id, "SubProcess", <<>>)
    ELSE IF batch
         THEN /\ writer' = None
              /\ Step(t, [th[t] EXCEPT !.i = @ + 1, !.pc = "in", !.pid = None])
         ELSE /\ writer' = None
              /\ Return(t, th[t].op, th[t].id, "Ok", <<>>)

\* how an operation leaves one entry: `?` returns the error and drops the
\* guard, a batch moves to the next entry with the guard still held, a
\* single-id operation returns Ok
EntryDone(t, err, batch) ==
    IF err
    THEN /\ writer' = None
         /\ Return(t, th[t].op, th[t].id, "SubProcess", <<>>)
    ELSE IF batch
         THEN /\ writer' = writer
              /\ Step(t, [th[t] EXCEPT !.i = @ + 1, !.pc = "in", !.pid = None])
         ELSE /\ writer' = None
              /\ Return(t, th[t].op, th[t].id, "Ok", <<>>)

\* the restart of entry idx as each crate writes it
RestartAt(t, idx, batch) ==
    IF variant = "std"
    THEN \E killOk \in BOOLEAN, spawnOk \in SpawnOutcomes :
            LET r == RestartEntry(apps, children, idx, killOk, spawnOk) IN
            /\ apps' = r.apps
            /\ children' = r.children
            /\ EntryDone(t, r.err, batch)
    ELSE IF variant = "appruntime"
    THEN \E killOk \in BOOLEAN, spawnOk \in SpawnOutcomes :
            LET r == VerifyStart(apps, children, idx, killOk, spawnOk) IN
            /\ apps' = apps
            /\ children' = r.children
            /\ IF r.err
               THEN EntryDone(t, TRUE, batch)
               ELSE /\ writer' = writer
                    /\ Step(t, [th[t] EXCEPT !.pc = "verify_wait",
                                    !.pid = Len(r.children)])
    ELSE \* appflow: a Running entry is stopped through self.stop_process,
         \* which asks for the write guard again
         IF apps[idx].status = "Running" /\ th[t].i = 1
         THEN /\ Step(t, [th[t] EXCEPT !.pc = "acq", !.op = "stop_process",
                                  !.nest = TRUE])
              /\ UNCHANGED <<apps, children, writer>>
         ELSE \E spawnOk \in SpawnOutcomes :
                 LET r == SpawnEntry(apps, children, idx, spawnOk) IN
                 /\ apps' = r.apps
                 /\ children' = r.children
                 /\ EntryDone(t, r.err, batch)

\* restart_process(id)
RestartProcess(t) ==
    /\ th[t].pc = "in"
    /\ th[t].op = "restart_process"
    /\ LET idx == IndexOf(apps, th[t].id) IN
       IF idx = 0
       THEN /\ writer' = None
            /\ Return(t, th[t].op, th[t].id, "NotFound", <<>>)
            /\ UNCHANGED <<apps, children>>
       ELSE RestartAt(t, idx, FALSE)
    /\ UNCHANGED <<variant, readers, dropCalls, callers, observed, ids, api, cap>>
    /\ UNCHANGED orchvars
    /\ UNCHANGED envvars
    /\ UNCHANGED sockvars

\* restart_all: one iteration of the loop, or the return after the last one
RestartAll(t) ==
    /\ th[t].pc = "in"
    /\ th[t].op = "restart_all"
    /\ IF th[t].i > Len(apps)
       THEN /\ writer' = None
            /\ Return(t, th[t].op, th[t].id, "Ok", <<>>)
            /\ UNCHANGED <<apps, children>>
       ELSE RestartAt(t, th[t].i, TRUE)
    /\ UNCHANGED <<variant, readers, dropCalls, callers, observed, ids, api, cap>>
    /\ UNCHANGED orchvars
    /\ UNCHANGED envvars
    /\ UNCHANGED sockvars

\* version_update_process(id): appruntime only, fn ver_update on the entry
VersionUpdateProcess(t) ==
    /\ th[t].pc = "in"
    /\ th[t].op = "version_update_process"
    /\ LET idx == IndexOf(apps, th[t].id) IN
       IF idx = 0
       THEN /\ writer' = None
            /\ Return(t, th[t].op, th[t].id, "NotFound", <<>>)
            /\ UNCHANGED <<apps, children>>
       ELSE RestartAt(t, idx, FALSE)
    /\ UNCHANGED <<variant, readers, dropCalls, callers, observed, ids, api, cap>>
    /\ UNCHANGED orchvars
    /\ UNCHANGED envvars
    /\ UNCHANGED sockvars

\* version_update_all: one iteration of the loop, or the return after the
\* last one
VersionUpdateAll(t) ==
    /\ th[t].pc = "in"
    /\ th[t].op = "version_update_all"
    /\ IF th[t].i > Len(apps)
       THEN /\ writer' = None
            /\ Return(t, th[t].op, th[t].id, "Ok", <<>>)
            /\ UNCHANGED <<apps, children>>
       ELSE RestartAt(t, th[t].i, TRUE)
    /\ UNCHANGED <<variant, readers, dropCalls, callers, observed, ids, api, cap>>
    /\ UNCHANGED orchvars
    /\ UNCHANGED envvars
    /\ UNCHANGED sockvars

\* mutation of VerifyWait: the exit of the "--update" run is not awaited
VerifyWaitNotAwaited(t) ==
    /\ th[t].pc = "verify_wait"
    /\ \E waitOk \in BOOLEAN, spawnOk \in SpawnOutcomes :
          LET idx == IF th[t].op \in BatchOps THEN th[t].i
                     ELSE IndexOf(apps, th[t].id)
              r == SpawnEntry(apps, children, idx, spawnOk)
          IN IF ~waitOk
             THEN /\ apps' = apps
                  /\ children' = children
                  /\ EntryDone(t, TRUE, FALSE)
             ELSE /\ apps' = r.apps
                  /\ children' = r.children
                  /\ EntryDone(t, r.err, th[t].op \in BatchOps)
    /\ UNCHANGED <<variant, readers, dropCalls, callers, observed, ids, api, cap>>
    /\ UNCHANGED orchvars
    /\ UNCHANGED envvars
    /\ UNCHANGED sockvars

\* mutation of AfterVerify: the long-running instance is spawned only
\* when the "--update" run exited with success
AfterVerifyGated(m, ch, idx, waitOk, spawnOk, code) ==
    IF ~waitOk
    THEN [apps |-> m, children |-> ch, err |-> TRUE]
    ELSE IF code # 0
    THEN [apps |-> m, children |-> ch, err |-> FALSE]
    ELSE SpawnEntry(m, ch, idx, spawnOk)

\* ver_update after the spawn of the "--update" run: `.wait().await?`
\* returns the OS error; the ExitStatus (code) is dropped and the
\* long-running instance is spawned
AfterVerify(m, ch, idx, waitOk, spawnOk, code) ==
    IF ~waitOk
    THEN [apps |-> m, children |-> ch, err |-> TRUE]
    ELSE SpawnEntry(m, ch, idx, spawnOk)

\* appruntime: .wait().await on the "--update" run, then the spawn of the
\* long-running instance
VerifyWait(t) ==
    /\ th[t].pc = "verify_wait"
    /\ ~children[th[t].pid].alive
    /\ \E waitOk \in BOOLEAN, spawnOk \in SpawnOutcomes :
          LET idx == IF th[t].op \in BatchOps THEN th[t].i
                     ELSE IndexOf(apps, th[t].id)
              r == AfterVerify(apps, children, idx, waitOk, spawnOk,
                               children[th[t].pid].code)
          IN /\ apps' = r.apps
             /\ children' = r.children
             /\ EntryDone(t, r.err, th[t].op \in BatchOps)
    /\ UNCHANGED <<variant, readers, dropCalls, callers, observed, ids, api, cap>>
    /\ UNCHANGED orchvars
    /\ UNCHANGED envvars
    /\ UNCHANGED sockvars

\* mutation of StopProcess: the stopped entry is taken out of the map
StopProcessRemovesEntry(t) ==
    /\ th[t].pc = "in"
    /\ th[t].op = "stop_process"
    /\ LET idx == IndexOf(apps, th[t].id) IN
       IF idx = 0
       THEN /\ writer' = None
            /\ Return(t, th[t].op, th[t].id, "NotFound", <<>>)
            /\ UNCHANGED <<apps, children>>
       ELSE \E killOk \in BOOLEAN :
               LET r == StopEntry(apps, children, idx, killOk) IN
               /\ apps' = IF r.err THEN r.apps
                          ELSE SelectSeq(r.apps, LAMBDA e : e.id # th[t].id)
               /\ children' = r.children
               /\ IF th[t].nest /\ ~r.err
                  THEN \* back in restart_process, which still holds its guard
                       /\ writer' = writer
                       /\ Step(t, [th[t] EXCEPT !.op = "restart_process",
                                   !.i = 2, !.nest = FALSE])
                  ELSE EntryDone(t, r.err, FALSE)
    /\ UNCHANGED <<variant, readers, dropCalls, callers, observed, ids, api, cap>>
    /\ UNCHANGED orchvars
    /\ UNCHANGED envvars
    /\ UNCHANGED sockvars

\* stop_process(id); in appflow also the callee of restart_process
StopProcess(t) ==
    /\ th[t].pc = "in"
    /\ th[t].op = "stop_process"
    /\ LET idx == IndexOf(apps, th[t].id) IN
       IF idx = 0
       THEN /\ writer' = None
            /\ Return(t, th[t].op, th[t].id, "NotFound", <<>>)
            /\ UNCHANGED <<apps, children>>
       ELSE \E killOk \in BOOLEAN :
               LET r == StopEntry(apps, children, idx, killOk) IN
               /\ apps' = r.apps
               /\ children' = r.children
               /\ IF th[t].nest /\ ~r.err
                  THEN \* back in restart_process, which still holds its guard
                       /\ writer' = writer
                       /\ Step(t, [th[t] EXCEPT !.op = "restart_process",
                                   !.i = 2, !.nest = FALSE])
                  ELSE EntryDone(t, r.err, FALSE)
    /\ UNCHANGED <<variant, readers, dropCalls, callers, observed, ids, api, cap>>
    /\ UNCHANGED orchvars
    /\ UNCHANGED envvars
    /\ UNCHANGED sockvars

\* stop_all, also when run from Drop::drop: one iteration of the loop, or
\* the return after the last one
StopAll(t) ==
    /\ th[t].pc = "in"
    /\ th[t].op \in {"stop_all", "drop"}
    /\ IF th[t].i > Len(apps)
       THEN /\ writer' = None
            /\ Return(t, th[t].op, th[t].id, "Ok", <<>>)
            /\ UNCHANGED <<apps, children>>
       ELSE \E killOk \in BOOLEAN :
               LET r == StopEntry(apps, children, th[t].i, killOk) IN
               /\ apps' = r.apps
               /\ children' = r.children
               /\ EntryDone(t, r.err, TRUE)
    /\ UNCHANGED <<variant, readers, dropCalls, callers, observed, ids, api, cap>>
    /\ UNCHANGED orchvars
    /\ UNCHANGED envvars
    /\ UNCHANGED sockvars

\* mutation of StatusOf: an id that is not registered reads as Stopped
StatusOfAbsentStopped(m, id) ==
    IF IndexOf(m, id) = 0 THEN "Stopped" ELSE m[IndexOf(m, id)].status

\* value returned by check_status(id) on registry m
StatusOf(m, id) == IF IndexOf(m, id) = 0 THEN "NotFound" ELSE m[IndexOf(m, id)].status

\* value returned by list_status() on registry m
StatusList(m) == [k \in 1..Len(m) |-> <<m[k].id, m[k].status>>]

\* check_status(id), under a read guard
CheckStatus(t) ==
    /\ th[t].pc = "in"
    /\ th[t].op = "check_status"
    /\ readers' = readers \ {t}
    /\ Return(t, th[t].op, th[t].id, StatusOf(apps, th[t].id), <<>>)
    /\ UNCHANGED <<variant, apps, children, writer, dropCalls, callers, observed, ids, api, cap>>
    /\ UNCHANGED orchvars
    /\ UNCHANGED envvars
    /\ UNCHANGED sockvars

\* list_status(), under a read guard
ListStatus(t) ==
    /\ th[t].pc = "in"
    /\ th[t].op = "list_status"
    /\ readers' = readers \ {t}
    /\ Return(t, th[t].op, th[t].id, "Ok", StatusList(apps))
    /\ UNCHANGED <<variant, apps, children, writer, dropCalls, callers, observed, ids, api, cap>>
    /\ UNCHANGED orchvars
    /\ UNCHANGED envvars
    /\ UNCHANGED sockvars

\* what update_status writes into entry i: Stopped when try_wait reports an
\* exit, Running when it reports none, nothing when the entry has no
\* handle or try_wait fails
RefreshEntry(m, ch, i, ok) ==
    IF m[i].process = None
    THEN m
    ELSE LET w == TryWait(ch, m[i].process, ok) IN
         IF w = "exited" THEN [m EXCEPT ![i].status = "Stopped"]
         ELSE IF w = "running" THEN [m EXCEPT ![i].status = "Running"]
         ELSE m

\* update_status: one iteration of the loop, or the return after the last
\* one
UpdateStatus(t) ==
    /\ th[t].pc = "in"
    /\ th[t].op = "update_status"
    /\ IF th[t].i > Len(apps)
       THEN /\ writer' = None
            /\ Return(t, th[t].op, th[t].id, "Ok", <<>>)
            /\ UNCHANGED apps
       ELSE /\ \E ok \in BOOLEAN : apps' = RefreshEntry(apps, children, th[t].i, ok)
            /\ writer' = writer
            /\ Step(t, [th[t] EXCEPT !.i = @ + 1])
    /\ UNCHANGED <<variant, children, readers, dropCalls, callers, observed, ids, api, cap>>
    /\ UNCHANGED orchvars
    /\ UNCHANGED envvars
    /\ UNCHANGED sockvars

\* mutation of WaitForExit: wait() returns without waiting for the exit
WaitForExitNotBlocking(t) ==
    /\ th[t].pc = "in"
    /\ th[t].op = "wait_for_exit"
    /\ IF th[t].i > Len(apps)
       THEN /\ writer' = None
            /\ Return(t, th[t].op, th[t].id, "Ok", <<>>)
            /\ UNCHANGED apps
       ELSE IF apps[th[t].i].process = None
       THEN /\ apps' = [apps EXCEPT ![th[t].i].status = "Stopped"]
            /\ writer' = writer
            /\ Step(t, [th[t] EXCEPT !.i = @ + 1])
       ELSE /\ \E waitOk \in BOOLEAN :
                  IF ~waitOk /\ variant = "std"
                  THEN /\ writer' = None
                       /\ Step(t, Panicked)
                       /\ UNCHANGED apps
                  ELSE /\ apps' = [apps EXCEPT ![th[t].i].status = "Stopped"]
                       /\ writer' = writer
                       /\ Step(t, [th[t] EXCEPT !.i = @ + 1])
    /\ UNCHANGED <<variant, children, readers, dropCalls, callers, observed, ids, api, cap>>
    /\ UNCHANGED orchvars
    /\ UNCHANGED envvars
    /\ UNCHANGED sockvars

\* wait_for_exit: one iteration of the loop, or the return after the last
\* one.  wait() on a handle returns when the OS reports the exit; its
\* error is unwrapped in appflow-std (the caller panics, the guard is
\* dropped by the unwinding) and logged and dropped in appruntime.  wait
\* fails only on a process that is no longer a child of the caller, so it
\* too comes after the process has ended
WaitForExit(t) ==
    /\ th[t].pc = "in"
    /\ th[t].op = "wait_for_exit"
    /\ IF th[t].i > Len(apps)
       THEN /\ writer' = None
            /\ Return(t, th[t].op, th[t].id, "Ok", <<>>)
            /\ UNCHANGED apps
       ELSE IF apps[th[t].i].process = None
       THEN /\ apps' = [apps EXCEPT ![th[t].i].status = "Stopped"]
            /\ writer' = writer
            /\ Step(t, [th[t] EXCEPT !.i = @ + 1])
       ELSE /\ children[apps[th[t].i].process].gone
            /\ \E waitOk \in BOOLEAN :
                  IF ~waitOk /\ variant = "std"
                  THEN /\ writer' = None
                       /\ Step(t, Panicked)
                       /\ UNCHANGED apps
                  ELSE /\ apps' = [apps EXCEPT ![th[t].i].status = "Stopped"]
                       /\ writer' = writer
                       /\ Step(t, [th[t] EXCEPT !.i = @ + 1])
    /\ UNCHANGED <<variant, children, readers, dropCalls, callers, observed, ids, api, cap>>
    /\ UNCHANGED orchvars
    /\ UNCHANGED envvars
    /\ UNCHANGED sockvars

\* impl Drop for AppRuntime.  appflow-std calls stop_all.  appruntime takes
\* the value out of self and hands spawn_blocking a closure that only
\* builds a future; nobody polls it, so stop_all is not run, and dropping
\* the future drops the taken AppRuntime, which enters drop again.  appflow
\* has no Drop impl.
DropRuntime(t) ==
    /\ t \in callers
    /\ variant # "appflow"
    /\ \A u \in Threads : th[u].pc = "idle"
    /\ IF variant = "std"
       THEN /\ dropCalls = 0
            /\ Step(t, [Idle EXCEPT !.pc = "acq", !.op = "drop"])
       ELSE /\ dropCalls < MaxDrops
            /\ th' = th
            /\ ret' = NoRet
    /\ dropCalls' = dropCalls + 1
    /\ UNCHANGED <<variant, apps, children, writer, readers, callers, observed, ids, api, cap>>
    /\ UNCHANGED orchvars
    /\ UNCHANGED envvars
    /\ UNCHANGED sockvars

\* an OS process ends by itself or is killed from outside the registry
ChildExit(p) ==
    /\ p \in 1..Len(children)
    /\ children[p].alive
    /\ \E code \in (IF children[p].upd THEN ExitCodes ELSE {0}) :
          children' = [children EXCEPT ![p].alive = FALSE, ![p].gone = TRUE,
                                       ![p].code = code]
    /\ ret' = NoRet
    /\ UNCHANGED <<variant, apps, writer, readers, th, dropCalls, callers, observed, ids, api, cap>>
    /\ UNCHANGED orchvars
    /\ UNCHANGED envvars
    /\ UNCHANGED sockvars

\* the process that Child::kill signalled has ended: try_wait and wait on
\* its handle report the exit from now on
KillTakesEffect(p) ==
    /\ p \in 1..Len(children)
    /\ ~children[p].alive
    /\ ~children[p].gone
    /\ children' = [children EXCEPT ![p].gone = TRUE]
    /\ ret' = NoRet
    /\ UNCHANGED <<variant, apps, writer, readers, th, dropCalls, callers, observed, ids, api, cap>>
    /\ UNCHANGED orchvars
    /\ UNCHANGED envvars
    /\ UNCHANGED sockvars

\* the name the supervising process was started under (argv[0]), the path
\* std::env::current_exe() resolves to, the arguments a user may pass, and
\* an argument that is not valid Unicode
Prog == "./app"
Exe == "/opt/app/bin/app"
Tokens == {"--port", "8080"}
NonUnicode == "<not unicode>"
ArgVectors ==
    UNION {[1..k -> Tokens \cup {NonUnicode}] : k \in 0..MaxArgs}

\* std::env::args() panics while it is iterated when an argument is not
\* valid Unicode
ArgsPanic(v) == \E k \in 1..Len(v) : v[k] = NonUnicode

\* mutation of Skip: nothing is skipped
SkipNothing(v, n) == v

\* Iterator::skip(n): the elements after the first n
Skip(v, n) == SubSeq(v, n + 1, Len(v))

\* Command::new(exe).args(args): the argument vector the new process
\* gets, the program first
CommandArgv(exe, args) == <<exe>> \o args

\* a registry used without a lifecycle orchestrator around it
NoOrchestrator ==
    /\ flow = "none"
    /\ initpc = "none"
    /\ mainpc = "none"
    /\ chan = <<>>
    /\ handlerSet = FALSE
    /\ signals = 0
    /\ cleanups = <<>>
    /\ arcs = 1
    /\ relaunch = "none"
    /\ update = "none"
    /\ exited = "no"
    /\ outcome = "none"
    /\ started = FALSE
    /\ argv = <<Prog>>
    /\ newargv = <<>>

\* one client's connection before send_request is called
NoConn == [cpc |-> "idle", est |-> FALSE, req |-> FALSE, spc |-> "none",
           resp |-> FALSE, cres |-> "none"]

\* no socket service in the scenario
NoService ==
    /\ transport = "none"
    /\ conns = [c \in Clients |-> NoConn]
    /\ acceptor = "none"

\* an empty registry, as AppRuntime::default() makes it
EmptyRegistry ==
    /\ variant \in Variants
    /\ apps = <<>>
    /\ children = <<>>
    /\ writer = None
    /\ readers = {}
    /\ th = [t \in Threads |-> Idle]
    /\ ret = NoRet
    /\ dropCalls = 0

\* one caller
InitReg ==
    /\ EmptyRegistry
    /\ callers = {1}
    /\ observed = {1}
    /\ ids = Ids
    /\ api = AllOps \ PollOps
    /\ cap = MaxChildren
    /\ NoOrchestrator
    /\ NoService

\* several callers share the registry
InitConc ==
    /\ EmptyRegistry
    /\ callers = Threads
    /\ observed = {}
    /\ ids = Ids
    /\ api = AllOps \ PollOps
    /\ cap = MaxChildrenConc
    /\ NoOrchestrator
    /\ NoService

NextReg ==
    \/ \E t \in Threads : SpawnFirst(t)
    \/ \E t \in Threads : AcquireWrite(t)
    \/ \E t \in Threads : AcquireRead(t)
    \/ \E t \in Threads : AddProcess(t)
    \/ \E t \in Threads : AddProcessThenRun(t)
    \/ \E t \in Threads : StartAll(t)
    \/ \E t \in Threads : RestartProcess(t)
    \/ \E t \in Threads : RestartAll(t)
    \/ \E t \in Threads : VersionUpdateProcess(t)
    \/ \E t \in Threads : VersionUpdateAll(t)
    \/ \E t \in Threads : VerifyWait(t)
    \/ \E t \in Threads : StopProcess(t)
    \/ \E t \in Threads : StopAll(t)
    \/ \E t \in Threads : CheckStatus(t)
    \/ \E t \in Threads : ListStatus(t)
    \/ \E t \in Threads : DropRuntime(t)
    \/ \E p \in DOMAIN children : ChildExit(p)

SpecReg == InitReg /\ [][NextReg]_vars

SpecConc == InitConc /\ [][NextReg]_vars

\* one caller and few ids, with room for the processes that repeated
\* restarts of one entry spawn
InitDeep ==
    /\ EmptyRegistry
    /\ callers = {1}
    /\ observed = {1}
    /\ ids = 1..NumIdsDeep
    /\ api = AllOps \ PollOps
    /\ cap = MaxChildrenDeep
    /\ NoOrchestrator
    /\ NoService

SpecDeep == InitDeep /\ [][NextReg]_vars

\* one caller that uses every operation, update_status and wait_for_exit
\* included, and the OS settling the kills
InitAll ==
    /\ EmptyRegistry
    /\ callers = {1}
    /\ observed = {1}
    /\ ids = Ids
    /\ api = AllOps
    /\ cap = MaxChildrenAll
    /\ NoOrchestrator
    /\ NoService

NextAll ==
    \/ NextReg
    \/ \E t \in Threads : UpdateStatus(t)
    \/ \E t \in Threads : WaitForExit(t)
    \/ \E p \in DOMAIN children : KillTakesEffect(p)

SpecAll == InitAll /\ [][NextAll]_vars

\* several callers, one of which may wait for the exit of every process
\* while the others register, stop, look up and refresh
WaitOps == {"add_process_then_run", "stop_process", "stop_all",
            "check_status", "list_status", "update_status", "wait_for_exit"}

InitWait ==
    /\ EmptyRegistry
    /\ "wait_for_exit" \in OpsOf(variant)
    /\ callers = Threads
    /\ observed = {}
    /\ ids = 1..NumIdsDeep
    /\ api = WaitOps
    /\ cap = MaxChildren
    /\ NoOrchestrator
    /\ NoService

NextWait ==
    \/ \E t \in Threads : SpawnFirst(t)
    \/ \E t \in Threads : AcquireWrite(t)
    \/ \E t \in Threads : AcquireRead(t)
    \/ \E t \in Threads : AddProcessThenRun(t)
    \/ \E t \in Threads : StopProcess(t)
    \/ \E t \in Threads : StopAll(t)
    \/ \E t \in Threads : CheckStatus(t)
    \/ \E t \in Threads : ListStatus(t)
    \/ \E t \in Threads : UpdateStatus(t)
    \/ \E t \in Threads : WaitForExit(t)
    \/ \E p \in DOMAIN children : ChildExit(p)
    \/ \E p \in DOMAIN children : KillTakesEffect(p)

SpecWait == InitWait /\ [][NextWait]_vars

\* ------------------------------------------------- lifecycle orchestrator
MaxSignals == 2

RECURSIVE StartAllFrom(_, _, _, _)
\* start_all run to its return by a caller nobody interleaves with; f is
\* the entry whose spawn the OS refuses (0: none)
StartAllFrom(m, ch, i, f) ==
    IF i > Len(m)
    THEN [apps |-> m, children |-> ch, err |-> FALSE]
    ELSE LET r == SpawnEntry(m, ch, i, i # f /\ Len(ch) < cap) IN
         IF r.err THEN r ELSE StartAllFrom(r.apps, r.children, i + 1, f)

RECURSIVE StopAllFrom(_, _, _, _)
\* stop_all run to its return; f is the entry whose kill fails (0: none)
StopAllFrom(m, ch, i, f) ==
    IF i > Len(m)
    THEN [apps |-> m, children |-> ch, err |-> FALSE]
    ELSE LET r == StopEntry(m, ch, i, i # f) IN
         IF r.err THEN r ELSE StopAllFrom(r.apps, r.children, i + 1, f)

RECURSIVE StartBatchFrom(_, _, _, _)
\* appflow's start_batch over the ids i..NumIds: add_process each, `?`
\* returns at the first spawn failure
StartBatchFrom(m, ch, i, f) ==
    IF i > NumIds
    THEN [apps |-> m, children |-> ch, err |-> FALSE]
    ELSE IF i = f \/ Len(ch) >= cap
         THEN [apps |-> m, children |-> ch, err |-> TRUE]
         ELSE StartBatchFrom(
                 Insert(m, [AppProcessNew("appflow", i) EXCEPT !.process = Len(ch) + 1]),
                 SpawnChild(ch, FALSE), i + 1, f)

\* n of the Arcs that own the application are dropped.  The last one drops
\* the application and with it the AppRuntime: appflow-std's Drop runs
\* stop_all, appruntime's Drop runs nothing, appflow has no Drop.
ReleaseArcs(n) ==
    /\ arcs' = arcs - n
    /\ IF arcs - n = 0 /\ variant = "std"
       THEN \E f \in 0..Len(apps) :
               LET r == StopAllFrom(apps, children, 1, f) IN
               /\ apps' = r.apps
               /\ children' = r.children
               /\ dropCalls' = dropCalls + 1
       ELSE /\ UNCHANGED <<apps, children>>
            /\ dropCalls' = IF arcs - n = 0 /\ variant = "appruntime"
                            THEN dropCalls + 1 ELSE dropCalls

\* cleanup() is entered by `by`
CleanupCalled(by) == Append(cleanups, [by |-> by, done |-> FALSE])

\* the invocation of cleanup() made by `by` returns
CleanupReturned(by) ==
    [k \in 1..Len(cleanups) |->
        IF cleanups[k].by = by THEN [cleanups[k] EXCEPT !.done = TRUE] ELSE cleanups[k]]

\* init up to the point where it waits: the Arc and its clone, the main
\* task, the termination listener
InitStart ==
    /\ exited = "no"
    /\ initpc = "start"
    /\ arcs' = 2
    /\ mainpc' = "running"
    /\ IF flow = "std"
       THEN /\ initpc' = "recv"
            /\ \E ok \in BOOLEAN : handlerSet' = ok
       ELSE /\ initpc' = "select"
            /\ handlerSet' = TRUE
    /\ UNCHANGED <<flow, chan, signals, cleanups, relaunch, update, exited, outcome,
                   started>>
    /\ UNCHANGED regvars
    /\ UNCHANGED sockvars
    /\ UNCHANGED envvars

\* the termination signal: the ctrlc handler sends on the channel (std),
\* signal::ctrl_c() becomes ready (tokio)
SignalArrives ==
    /\ exited = "no"
    /\ initpc # "start"
    /\ handlerSet
    /\ signals < MaxSignals
    /\ signals' = signals + 1
    /\ chan' = Append(chan, "signal")
    /\ UNCHANGED <<flow, initpc, mainpc, handlerSet, cleanups, arcs, relaunch, update,
                   exited, outcome, started>>
    /\ UNCHANGED regvars
    /\ UNCHANGED sockvars
    /\ UNCHANGED envvars

\* main_process starts the children it supervises
MainStart ==
    /\ exited = "no"
    /\ mainpc = "running"
    /\ ~started
    /\ started' = TRUE
    /\ \E f \in 0..NumIds :
          LET r == IF variant = "appflow"
                   THEN StartBatchFrom(apps, children, 1, f)
                   ELSE StartAllFrom(apps, children, 1, f)
          IN /\ apps' = r.apps
             /\ children' = r.children
    /\ UNCHANGED <<variant, writer, readers, th, ret, dropCalls, callers, observed, ids, api, cap>>
    /\ UNCHANGED <<flow, initpc, mainpc, chan, handlerSet, signals, cleanups, arcs,
                   relaunch, update, exited, outcome>>
    /\ UNCHANGED sockvars
    /\ UNCHANGED envvars

\* main_process returns, or fails.  std: Ok goes on to the send, Err makes
\* expect() panic, which unwinds the thread and drops its Arc and Sender.
\* tokio: select! takes the main branch, whose handler is empty; a panic
\* unwinds init.
MainReturn ==
    /\ exited = "no"
    /\ mainpc = "running"
    /\ \E ok \in BOOLEAN :
          IF flow = "std"
          THEN /\ mainpc' = IF ok THEN "send" ELSE "panicked"
               /\ IF ok
                  THEN UNCHANGED <<arcs, apps, children, dropCalls>>
                  ELSE ReleaseArcs(1)
               /\ UNCHANGED <<initpc, outcome>>
          ELSE /\ initpc = "select"
               /\ mainpc' = IF ok THEN "done" ELSE "panicked"
               /\ initpc' = IF ok THEN "returned" ELSE "panicked"
               /\ outcome' = "main"
               /\ ReleaseArcs(2)
    /\ UNCHANGED <<variant, writer, readers, th, ret, callers, observed, ids, api, cap>>
    /\ UNCHANGED <<flow, chan, handlerSet, signals, cleanups, relaunch, update,
                   exited, started>>
    /\ UNCHANGED sockvars
    /\ UNCHANGED envvars

\* std: m_tx.send(0) after main_process returned Ok
MainSend ==
    /\ exited = "no"
    /\ mainpc = "send"
    /\ mainpc' = "sent"
    /\ chan' = Append(chan, "main")
    /\ UNCHANGED <<flow, initpc, handlerSet, signals, cleanups, arcs, relaunch, update,
                   exited, outcome, started>>
    /\ UNCHANGED regvars
    /\ UNCHANGED sockvars
    /\ UNCHANGED envvars

\* std: the thread's closure ends and drops its Arc and its Sender
MainThreadEnd ==
    /\ exited = "no"
    /\ mainpc = "sent"
    /\ mainpc' = "done"
    /\ ReleaseArcs(1)
    /\ UNCHANGED <<variant, writer, readers, th, ret, callers, observed, ids, api, cap>>
    /\ UNCHANGED <<flow, initpc, chan, handlerSet, signals, cleanups, relaunch, update,
                   exited, outcome, started>>
    /\ UNCHANGED sockvars
    /\ UNCHANGED envvars

\* restart(), called by main_process: cleanup() is entered
RestartCleanup ==
    /\ exited = "no"
    /\ mainpc = "running"
    /\ mainpc' = "restart_cleanup"
    /\ cleanups' = CleanupCalled("restart")
    /\ UNCHANGED <<flow, initpc, chan, handlerSet, signals, arcs, relaunch, update,
                   exited, outcome, started>>
    /\ UNCHANGED regvars
    /\ UNCHANGED sockvars
    /\ UNCHANGED envvars

\* restart(): cleanup() returns
RestartCleanupDone ==
    /\ exited = "no"
    /\ mainpc = "restart_cleanup"
    /\ mainpc' = "restart_spawn"
    /\ cleanups' = CleanupReturned("restart")
    /\ UNCHANGED <<flow, initpc, chan, handlerSet, signals, arcs, relaunch, update,
                   exited, outcome, started>>
    /\ UNCHANGED regvars
    /\ UNCHANGED sockvars
    /\ UNCHANGED envvars

\* mutation of RestartSpawn: a failed spawn returns to main_process
\* instead of going on to exit(0)
RestartSpawnReturnsOnError ==
    /\ exited = "no"
    /\ mainpc = "restart_spawn"
    /\ \E spawnOk \in BOOLEAN :
          /\ relaunch' = IF spawnOk THEN "ok" ELSE "err"
          /\ mainpc' = IF spawnOk THEN "restart_exit" ELSE "running"
    /\ UNCHANGED <<initpc, arcs, apps, children, dropCalls>>
    /\ UNCHANGED <<variant, writer, readers, th, ret, callers, observed, ids, api, cap>>
    /\ UNCHANGED <<flow, chan, handlerSet, signals, cleanups, update, exited, outcome,
                   started>>
    /\ UNCHANGED sockvars
    /\ UNCHANGED envvars

\* restart(): current_exe().unwrap(), then the spawn of the replacement
\* with env::args().skip(1) as its arguments; the error of the spawn is
\* only logged
RestartSpawn ==
    /\ exited = "no"
    /\ mainpc = "restart_spawn"
    /\ \E exeOk \in BOOLEAN, spawnOk \in BOOLEAN :
          IF exeOk /\ ~ArgsPanic(argv)
          THEN /\ relaunch' = IF spawnOk THEN "ok" ELSE "err"
               /\ newargv' = IF spawnOk THEN CommandArgv(Exe, Skip(argv, 1))
                              ELSE newargv
               /\ mainpc' = "restart_exit"
               /\ UNCHANGED <<initpc, arcs, apps, children, dropCalls>>
          ELSE /\ relaunch' = relaunch
               /\ newargv' = newargv
               /\ mainpc' = "panicked"
               /\ IF flow = "std"
                  THEN /\ ReleaseArcs(1)
                       /\ UNCHANGED initpc
                  ELSE /\ ReleaseArcs(arcs)
                       /\ initpc' = "panicked"
    /\ UNCHANGED <<variant, writer, readers, th, ret, callers, observed, ids, api, cap>>
    /\ UNCHANGED <<flow, chan, handlerSet, signals, cleanups, update, exited, outcome,
                   started>>
    /\ UNCHANGED sockvars
    /\ UNCHANGED argv

\* mutation of RestartExit: exit(0) only when the replacement was spawned
RestartExitIfSpawned ==
    /\ exited = "no"
    /\ mainpc = "restart_exit"
    /\ relaunch = "ok"
    /\ exited' = "restart"
    /\ UNCHANGED <<flow, initpc, mainpc, chan, handlerSet, signals, cleanups, arcs,
                   relaunch, update, outcome, started>>
    /\ UNCHANGED regvars
    /\ UNCHANGED sockvars
    /\ UNCHANGED envvars

\* restart(): std::process::exit(0); no destructor runs
RestartExit ==
    /\ exited = "no"
    /\ mainpc = "restart_exit"
    /\ exited' = "restart"
    /\ UNCHANGED <<flow, initpc, mainpc, chan, handlerSet, signals, cleanups, arcs,
                   relaunch, update, outcome, started>>
    /\ UNCHANGED regvars
    /\ UNCHANGED sockvars
    /\ UNCHANGED envvars

\* appflow's update(), called by main_process: updater.update().await
\* .unwrap(), then exit(0).  A successful update replaces the process
\* image or exits; a failed one panics in the task that runs init.
Update ==
    /\ exited = "no"
    /\ flow = "tokio"
    /\ mainpc = "running"
    /\ initpc = "select"
    /\ \E ok \in BOOLEAN :
          IF ok
          THEN /\ update' = "ok"
               /\ exited' = "update"
               /\ UNCHANGED <<initpc, mainpc, arcs, apps, children, dropCalls>>
          ELSE /\ update' = "err"
               /\ exited' = exited
               /\ mainpc' = "panicked"
               /\ initpc' = "panicked"
               /\ ReleaseArcs(arcs)
    /\ UNCHANGED <<variant, writer, readers, th, ret, callers, observed, ids, api, cap>>
    /\ UNCHANGED <<flow, chan, handlerSet, signals, cleanups, relaunch, outcome, started>>
    /\ UNCHANGED sockvars
    /\ UNCHANGED envvars

\* init stops waiting.  std: rx.recv() yields the first message, whoever
\* sent it, and cleanup() is entered; with every Sender gone it yields Err,
\* which is logged.  tokio: select! takes the ctrl_c branch, drops the
\* main_process future where it stands and enters cleanup().
InitWake ==
    /\ exited = "no"
    /\ IF flow = "std"
       THEN /\ initpc = "recv"
            /\ IF chan # <<>>
               THEN /\ outcome' = Head(chan)
                    /\ chan' = Tail(chan)
                    /\ cleanups' = CleanupCalled(Head(chan))
                    /\ initpc' = "cleanup"
               ELSE /\ ~handlerSet
                    /\ mainpc \in {"done", "panicked"}
                    /\ outcome' = "disconnected"
                    /\ initpc' = "cleanup_skipped"
                    /\ UNCHANGED <<chan, cleanups>>
            /\ UNCHANGED <<mainpc, arcs>>
       ELSE /\ initpc = "select"
            /\ chan # <<>>
            /\ mainpc \in {"running", "restart_cleanup"}
            /\ outcome' = "signal"
            /\ chan' = Tail(chan)
            /\ cleanups' = CleanupCalled("signal")
            /\ initpc' = "cleanup"
            /\ mainpc' = "abandoned"
            /\ arcs' = arcs - 1
    /\ UNCHANGED <<flow, handlerSet, signals, relaunch, update, exited, started>>
    /\ UNCHANGED regvars
    /\ UNCHANGED sockvars
    /\ UNCHANGED envvars

\* mutation of InitReturn: init joins the main task before it returns
InitReturnAfterMain ==
    /\ exited = "no"
    /\ initpc \in {"cleanup", "cleanup_skipped"}
    /\ mainpc \in {"done", "panicked"}
    /\ initpc' = "returned"
    /\ cleanups' = IF initpc = "cleanup" THEN CleanupReturned(outcome) ELSE cleanups
    /\ ReleaseArcs(1)
    /\ UNCHANGED <<variant, writer, readers, th, ret, callers, observed, ids, api, cap>>
    /\ UNCHANGED <<flow, mainpc, chan, handlerSet, signals, relaunch, update, exited,
                   outcome, started>>
    /\ UNCHANGED sockvars
    /\ UNCHANGED envvars

\* init returns: cleanup() is over (or was not run), init's Arc is dropped
InitReturn ==
    /\ exited = "no"
    /\ initpc \in {"cleanup", "cleanup_skipped"}
    /\ initpc' = "returned"
    /\ cleanups' = IF initpc = "cleanup" THEN CleanupReturned(outcome) ELSE cleanups
    /\ ReleaseArcs(1)
    /\ UNCHANGED <<variant, writer, readers, th, ret, callers, observed, ids, api, cap>>
    /\ UNCHANGED <<flow, mainpc, chan, handlerSet, signals, relaunch, update, exited,
                   outcome, started>>
    /\ UNCHANGED sockvars
    /\ UNCHANGED envvars

\* the function that called init comes to its end and the process exits
ProcessExit ==
    /\ exited = "no"
    /\ initpc \in {"returned", "panicked"}
    /\ exited' = IF initpc = "returned" THEN "return" ELSE "panic"
    /\ UNCHANGED <<flow, initpc, mainpc, chan, handlerSet, signals, cleanups, arcs,
                   relaunch, update, outcome, started>>
    /\ UNCHANGED regvars
    /\ UNCHANGED sockvars
    /\ UNCHANGED envvars

\* the application as constructed: a registry with its entries added
\* (appflow registers while it starts), init not yet called
OrchStart ==
    /\ flow \in {"std", "tokio"}
    /\ variant \in (IF flow = "std" THEN {"std"} ELSE {"appflow", "appruntime"})
    /\ apps = IF variant = "appflow" THEN <<>>
              ELSE [k \in 1..NumIds |-> AppProcessNew(variant, k)]
    /\ children = <<>>
    /\ writer = None
    /\ readers = {}
    /\ th = [t \in Threads |-> Idle]
    /\ ret = NoRet
    /\ callers = {1}
    /\ observed = {1}
    /\ ids = Ids
    /\ api = AllOps \ PollOps
    /\ cap = MaxChildren
    /\ dropCalls = 0
    /\ initpc = "start"
    /\ mainpc = "none"
    /\ chan = <<>>
    /\ handlerSet = FALSE
    /\ signals = 0
    /\ cleanups = <<>>
    /\ arcs = 1
    /\ relaunch = "none"
    /\ update = "none"
    /\ exited = "no"
    /\ outcome = "none"
    /\ started = FALSE
    /\ NoService

\* the process was started without arguments
InitOrch ==
    /\ OrchStart
    /\ argv = <<Prog>>
    /\ newargv = <<>>

\* the process was started with any of the argument vectors
InitArgs ==
    /\ OrchStart
    /\ argv \in {<<Prog>> \o a : a \in ArgVectors}
    /\ newargv = <<>>

NextOrch ==
    \/ InitStart
    \/ SignalArrives
    \/ MainStart
    \/ MainReturn
    \/ MainSend
    \/ MainThreadEnd
    \/ RestartCleanup
    \/ RestartCleanupDone
    \/ RestartSpawn
    \/ RestartExit
    \/ Update
    \/ InitWake
    \/ InitReturn
    \/ ProcessExit
    \/ \E p \in DOMAIN children : ChildExit(p)

SpecOrch == InitOrch /\ [][NextOrch]_vars

\* the same application started with arguments
SpecArgs == InitArgs /\ [][NextOrch]_vars

\* threads that run when they can; main_process may run for ever, signals
\* and child exits may never come
FairOrch ==
    /\ SpecOrch
    /\ WF_vars(InitStart)
    /\ WF_vars(InitWake)
    /\ WF_vars(InitReturn)
    /\ WF_vars(MainSend)
    /\ WF_vars(MainThreadEnd)
    /\ WF_vars(RestartCleanupDone)
    /\ WF_vars(RestartSpawn)
    /\ WF_vars(RestartExit)
    /\ WF_vars(ProcessExit)

\* --------------------------------------------------------- socket services
\* tcpservice (tokio, one task per connection) and unixservice (std, the
\* accept loop reads the request itself and spawns a thread per handler).
\* Each client calls send_request once.

\* the client end of connection c is closed: send_request has returned and
\* dropped the stream, or the client process is gone
ClientClosed(c) == conns[c].cpc \in {"returned", "aborted"}

\* send_request: connect().  It fails when nothing listens
ClientConnect(c) ==
    /\ transport # "none"
    /\ conns[c].cpc = "idle"
    /\ \E ok \in (IF acceptor = "ended" THEN {FALSE} ELSE BOOLEAN) :
          conns' = [conns EXCEPT ![c] =
                       IF ok
                       THEN [@ EXCEPT !.cpc = "connected", !.est = TRUE]
                       ELSE [@ EXCEPT !.cpc = "returned", !.cres = "Err"]]
    /\ UNCHANGED <<transport, acceptor>>
    /\ UNCHANGED regvars
    /\ UNCHANGED orchvars
    /\ UNCHANGED envvars

\* send_request: serialize and write_all.  On success the client goes on to
\* read_to_end with the stream, both halves, still open; on failure it
\* returns the error and the stream is dropped
ClientWrite(c) ==
    /\ conns[c].cpc = "connected"
    /\ \E ok \in BOOLEAN :
          conns' = [conns EXCEPT ![c] =
                       IF ok
                       THEN [@ EXCEPT !.cpc = "reading", !.req = TRUE]
                       ELSE [@ EXCEPT !.cpc = "returned", !.cres = "Err"]]
    /\ UNCHANGED <<transport, acceptor>>
    /\ UNCHANGED regvars
    /\ UNCHANGED orchvars
    /\ UNCHANGED envvars

\* send_request: read_to_end returns once the server end is closed; the
\* bytes read deserialize to the response when the server wrote one
ClientReadDone(c) ==
    /\ conns[c].cpc = "reading"
    /\ conns[c].spc = "closed"
    /\ \E ok \in BOOLEAN :
          conns' = [conns EXCEPT ![c].cpc = "returned",
                                 ![c].cres = IF ok /\ conns[c].resp
                                             THEN "Ok" ELSE "Err"]
    /\ UNCHANGED <<transport, acceptor>>
    /\ UNCHANGED regvars
    /\ UNCHANGED orchvars
    /\ UNCHANGED envvars

\* the client process ends inside send_request; the OS closes its stream
ClientAbort(c) ==
    /\ conns[c].cpc \in {"connected", "reading"}
    /\ conns' = [conns EXCEPT ![c].cpc = "aborted"]
    /\ UNCHANGED <<transport, acceptor>>
    /\ UNCHANGED regvars
    /\ UNCHANGED orchvars
    /\ UNCHANGED envvars

\* create_service: accept() hands over an established connection.  tcp
\* spawns a task that reads it and accepts again; unix reads it in the
\* accept loop itself
ServerAccept(c) ==
    /\ acceptor = "accept"
    /\ conns[c].est
    /\ conns[c].spc = "none"
    /\ conns' = [conns EXCEPT ![c].spc = "reading"]
    /\ acceptor' = IF transport = "unix" THEN "read" ELSE acceptor
    /\ UNCHANGED transport
    /\ UNCHANGED regvars
    /\ UNCHANGED orchvars
    /\ UNCHANGED envvars

\* create_service: read_to_end on the accepted stream returns when the
\* client end is closed, then deserialize.  With a whole request the
\* handler is entered (unix: on a new thread); otherwise the error is
\* logged and the stream dropped.  The unix accept loop goes on
ServerRead(c) ==
    /\ conns[c].spc = "reading"
    /\ ClientClosed(c)
    /\ \E ok \in BOOLEAN :
          conns' = [conns EXCEPT ![c].spc = IF ok /\ conns[c].req
                                            THEN "handling" ELSE "closed"]
    /\ acceptor' = IF transport = "unix" THEN "accept" ELSE acceptor
    /\ UNCHANGED transport
    /\ UNCHANGED regvars
    /\ UNCHANGED orchvars
    /\ UNCHANGED envvars

\* create_service: handle_request, serialize, write_all, and the stream is
\* dropped at the end of the task or thread
ServerHandle(c) ==
    /\ conns[c].spc = "handling"
    /\ \E ok \in BOOLEAN :
          conns' = [conns EXCEPT ![c].resp = ok, ![c].spc = "closed"]
    /\ UNCHANGED <<transport, acceptor>>
    /\ UNCHANGED regvars
    /\ UNCHANGED orchvars
    /\ UNCHANGED envvars

\* the service ends (tcp: accept fails and `?` returns from create_service;
\* either: the server process is stopped) and the OS closes its sockets
ServiceEnds ==
    /\ acceptor \in {"accept", "read"}
    /\ acceptor' = "ended"
    /\ conns' = [c \in Clients |->
                    IF conns[c].est THEN [conns[c] EXCEPT !.spc = "closed"]
                    ELSE conns[c]]
    /\ UNCHANGED transport
    /\ UNCHANGED regvars
    /\ UNCHANGED orchvars
    /\ UNCHANGED envvars

\* a listening service and clients that have not called yet
InitSock ==
    /\ variant = "std"
    /\ apps = <<>>
    /\ children = <<>>
    /\ writer = None
    /\ readers = {}
    /\ th = [t \in Threads |-> Idle]
    /\ ret = NoRet
    /\ dropCalls = 0
    /\ callers = {}
    /\ observed = {}
    /\ ids = {}
    /\ api = {}
    /\ cap = 0
    /\ NoOrchestrator
    /\ transport \in {"tcp", "unix"}
    /\ conns = [c \in Clients |-> NoConn]
    /\ acceptor = "accept"

NextSock ==
    \/ \E c \in Clients : ClientConnect(c)
    \/ \E c \in Clients : ClientWrite(c)
    \/ \E c \in Clients : ClientReadDone(c)
    \/ \E c \in Clients : ClientAbort(c)
    \/ \E c \in Clients : ServerAccept(c)
    \/ \E c \in Clients : ServerRead(c)
    \/ \E c \in Clients : ServerHandle(c)
    \/ ServiceEnds

SpecSock == InitSock /\ [][NextSock]_vars

\* every call that can go on does; clients may never call, processes may
\* never end
FairSock ==
    /\ SpecSock
    /\ \A c \in Clients :
          /\ WF_vars(ClientWrite(c))
          /\ WF_vars(ClientReadDone(c))
          /\ WF_vars(ServerAccept(c))
          /\ WF_vars(ServerRead(c))
          /\ WF_vars(ServerHandle(c))

\* ----------------------------------------------------------------- claims

\* a caller is inside the registry: past the acquisition of its guard and
\* not yet returned
Inside(t) == th[t].pc \in {"in", "verify_wait"} \/ (th[t].pc = "acq" /\ th[t].nest)
Mutating(t) == Inside(t) /\ th[t].op \notin ReadOps
CleanupsBy(by) == {k \in 1..Len(cleanups) : cleanups[k].by = by}
InitOver == initpc \in {"returned", "panicked"}

\* C1: no operation asks for the registry lock while it already holds it
\* (so that every operation that starts gets the lock and finishes)
C1_NoNestedAcquire ==
    \A t \in Threads : ~(th[t].pc = "acq" /\ writer = t)

\* C2: when init is over and no termination signal was ever sent (the main
\* task completed or failed first), cleanup() has been run
C2_CleanupWhenMainEndsFirst ==
    (InitOver /\ signals = 0) => \E k \in 1..Len(cleanups) : cleanups[k].done

\* C3: when the termination listener ends init's wait, cleanup() is run
\* once by the signal path and init returns (or the process exits) without
\* waiting for main_process
C3_SignalPath ==
    /\ []((outcome = "signal" /\ initpc = "returned")
            => /\ Cardinality(CleanupsBy("signal")) = 1
               /\ \A k \in CleanupsBy("signal") : cleanups[k].done)
    /\ ((outcome = "signal") ~> (initpc = "returned" \/ exited # "no"))

C3_Witness ==
    /\ outcome = "signal"
    /\ initpc = "returned"
    /\ mainpc \in {"running", "abandoned"}
    /\ Len(cleanups) = 1

\* C4: cleanup() is invoked at most once per orchestrator run
C4_CleanupAtMostOnce == Len(cleanups) <= 1

\* C5: once the supervising process has exited, by whatever path, no
\* process tracked by the registry is still alive
C5_ChildrenStoppedOnExit ==
    exited # "no" =>
        \A k \in 1..Len(apps) :
            apps[k].process # None => ~children[apps[k].process].alive

\* C6: the teardown run by Drop does not return while a Running entry
\* remains after the one it is at, whether or not a kill failed
C6_TeardownContinues ==
    [][\A t \in Threads :
          (/\ th[t].op = "drop"
           /\ th[t].pc = "in"
           /\ \E j \in (th[t].i + 1)..Len(apps) : apps[j].status = "Running")
          => th'[t].pc = "in"]_vars

\* C7: while a mutating operation is inside the registry, from its first
\* entry to its last, no other caller is inside; only readers overlap
C7_Serialized ==
    \A t, u \in Threads : (t # u /\ Mutating(t)) => ~Inside(u)

C7_Witness ==
    \E t, u \in Threads :
        /\ th[t].op \in {"start_all", "stop_all", "restart_all"}
        /\ th[t].pc = "in"
        /\ th[t].i = 2
        /\ Len(apps) = 2
        /\ th[u].pc = "acq"

\* C8: restart() spawns the replacement only after its cleanup() has
\* returned, exits only after the spawn was attempted, and after the
\* attempt, whatever its result, stands at exit(0)
C8_RestartOrder ==
    /\ relaunch # "none" => \E k \in CleanupsBy("restart") : cleanups[k].done
    /\ exited = "restart" => relaunch # "none"
    /\ (relaunch # "none" /\ exited = "no") => mainpc = "restart_exit"

C8_Witness == relaunch = "err" /\ mainpc = "restart_exit" /\ exited = "no"

C10_RegisterStopped ==
    /\ [][(/\ variant # "appflow"
           /\ ret'.op = "add_process"
           /\ IndexOf(apps, ret'.id) = 0)
          => /\ StatusOf(apps', ret'.id) = "Stopped"
             /\ apps'[IndexOf(apps', ret'.id)].process = None]_vars
    /\ [](ret.op = "check_status" => ret.val = StatusOf(apps, ret.id))

C10_Witness ==
    /\ variant # "appflow"
    /\ ret.op = "check_status"
    /\ ret.val = "Stopped"
    /\ apps[IndexOf(apps, ret.id)].process = None

\* the operation that returned in the step just taken registers and starts
RegisterAndStartReturned ==
    \/ ret'.op = "add_process_then_run"
    \/ (variant = "appflow" /\ ret'.op = "add_process")

\* C11: add_process of an id that is already registered returns
\* DuplicateId and leaves the registry as it was
C11_DuplicateRejected ==
    [][(/\ variant # "appflow"
        /\ ret'.op = "add_process"
        /\ IndexOf(apps, ret'.id) # 0)
       => /\ ret'.val = "DuplicateId"
          /\ apps' = apps]_vars

\* C12: add_process_then_run (appflow: add_process) either returns Ok with
\* the entry registered Running and holding the handle of the process it
\* spawned, every other entry as it was, or returns an error with the
\* registry and the set of processes as they were
C12_RegisterAndStartAtomic ==
    [][RegisterAndStartReturned
       => IF ret'.val = "Ok"
          THEN LET k == IndexOf(apps', ret'.id) IN
               /\ k # 0
               /\ apps'[k].status = "Running"
               /\ apps'[k].process = th[ret'.t].pid
               /\ apps'[k].process # None
               /\ Len(apps') = IF IndexOf(apps, ret'.id) = 0
                               THEN Len(apps) + 1 ELSE Len(apps)
               /\ \A j \in 1..Len(apps) : j # k => apps'[j] = apps[j]
          ELSE /\ apps' = apps
               /\ children' = children]_vars

C12_Witness ==
    /\ ret.op = "add_process_then_run"
    /\ ret.val = "Ok"
    /\ Len(apps) = 2
    /\ apps[IndexOf(apps, ret.id)].status = "Running"

\* the keys of the IndexMap in iteration order
Order(m) == [k \in 1..Len(m) |-> m[k].id]

\* C13: right after start_all returns Ok every entry is Running; no step
\* removes or reorders a key, a new key goes to the end; and list_status
\* returns one pair per entry, the entry's id and status, in that order
C13_StartAllThenList ==
    /\ []((ret.op = "start_all" /\ ret.val = "Ok")
            => \A k \in 1..Len(apps) : apps[k].status = "Running")
    /\ [][/\ Len(apps') >= Len(apps)
          /\ SubSeq(Order(apps'), 1, Len(apps)) = Order(apps)]_vars
    /\ [](ret.op = "list_status"
            => /\ Len(ret.list) = Len(apps)
               /\ \A k \in 1..Len(apps) :
                     ret.list[k] = <<apps[k].id, apps[k].status>>)

C13_Witness ==
    /\ ret.op = "start_all"
    /\ ret.val = "Ok"
    /\ Len(apps) = NumIds
    /\ \A k \in 1..Len(apps) : children[apps[k].process].alive

\* the batches that write, and the status each gives the entries it passes
StartingBatches == {"start_all", "restart_all", "version_update_all"}
StoppingBatches == {"stop_all", "drop"}
InBatch(t) ==
    /\ th[t].pc \in {"in", "verify_wait"}
    /\ th[t].op \in StartingBatches \cup StoppingBatches

\* C14: a batch is at entry i with every entry before i in the status the
\* batch gives (Running, or Stopped for stop_all); each of its steps
\* writes entry i only; it returns Ok only past the last entry and an error
\* only at an entry, and the step that returns the error writes nothing
C14_PartialBatch ==
    /\ [](\A t \in Threads : InBatch(t)
            => \A j \in 1..(th[t].i - 1) :
                  /\ j <= Len(apps)
                  /\ apps[j].status = IF th[t].op \in StartingBatches
                                      THEN "Running" ELSE "Stopped")
    /\ [][\A t \in Threads : InBatch(t)
            => /\ Len(apps') = Len(apps)
               /\ \A j \in 1..Len(apps) : j # th[t].i => apps'[j] = apps[j]
               /\ th'[t].pc = "idle"
                    => /\ ret'.val \in {"Ok", "SubProcess"}
                       /\ ret'.val = "Ok" <=> th[t].i > Len(apps)
                       /\ ret'.val = "SubProcess" => apps' = apps]_vars

C14_Witness ==
    /\ ret.op \in {"start_all", "restart_all"}
    /\ ret.val = "SubProcess"
    /\ Len(apps) = 2
    /\ apps[1].status = "Running"
    /\ apps[2].status = "Stopped"

\* the entry a stop operation of caller t is at, 0 when there is none
StopTarget(t) ==
    IF th[t].pc = "in" /\ th[t].op \in {"stop_process", "stop_all"}
    THEN IF th[t].op = "stop_all"
         THEN (IF th[t].i <= Len(apps) THEN th[t].i ELSE 0)
         ELSE IndexOf(apps, th[t].id)
    ELSE 0

\* C15: stop_process and stop_all, at a Stopped entry, change nothing, kill
\* nothing and do not fail; at a Running entry they leave it Stopped with
\* its process dead, or return the error of the kill; right after stop_all
\* returns Ok every entry is Stopped
C15_StopIdempotent ==
    /\ [][\A t \in Threads : (StopTarget(t) # 0 /\ th'[t] # th[t])
            => LET k == StopTarget(t) IN
               IF apps[k].status = "Stopped"
               THEN /\ apps' = apps
                    /\ children' = children
                    /\ th'[t].pc = "idle" => ret'.val = "Ok"
               ELSE \/ /\ apps'[k].status = "Stopped"
                       /\ apps[k].process # None
                            => ~children'[apps[k].process].alive
                       /\ th'[t].pc = "idle" => ret'.val = "Ok"
                    \/ /\ th'[t].pc = "idle"
                       /\ ret'.val = "SubProcess"]_vars
    /\ []((ret.op = "stop_all" /\ ret.val = "Ok")
            => \A k \in 1..Len(apps) : apps[k].status = "Stopped")

C15_Witness ==
    /\ ret.op = "stop_all"
    /\ ret.val = "Ok"
    /\ Len(apps) = 2
    /\ \A k \in 1..Len(apps) :
          apps[k].process # None /\ ~children[apps[k].process].alive

RestartOps == {"restart_process", "restart_all", "version_update_process",
               "version_update_all"}

\* the entry a restart operation of caller t is at, 0 when there is none
RestartTarget(t) ==
    IF th[t].pc \in {"in", "verify_wait"} /\ th[t].op \in RestartOps
    THEN IF th[t].op \in BatchOps
         THEN (IF th[t].i <= Len(apps) THEN th[t].i ELSE 0)
         ELSE IndexOf(apps, th[t].id)
    ELSE 0

\* caller t finishes its entry without an error in this step
EntrySucceeds(t) ==
    IF th[t].op \in BatchOps
    THEN th'[t].pc = "in" /\ th'[t].i = th[t].i + 1
    ELSE th'[t].pc = "idle" /\ ret'.val = "Ok"

\* C16: the step in which a restart finishes an entry without an error
\* spawns one process, not a verification run, stores its handle in the
\* entry and sets the entry Running; the process of an entry that was
\* Running is dead by then; right after restart_all returns Ok every entry
\* is Running
C16_RestartEndsRunning ==
    /\ [][\A t \in Threads :
            (RestartTarget(t) # 0 /\ EntrySucceeds(t))
            => LET k == RestartTarget(t) IN
               /\ apps'[k].status = "Running"
               /\ Len(children') = Len(children) + 1
               /\ apps'[k].process = Len(children')
               /\ children'[Len(children')].alive
               /\ ~children'[Len(children')].upd
               /\ (apps[k].status = "Running" /\ apps[k].process # None)
                    => ~children'[apps[k].process].alive]_vars
    /\ []((ret.op \in {"restart_all", "version_update_all"} /\ ret.val = "Ok")
            => \A k \in 1..Len(apps) : apps[k].status = "Running")

C16_Witness ==
    /\ ret.op = "restart_process"
    /\ ret.val = "Ok"
    /\ Len(children) = 2
    /\ ~children[1].alive
    /\ apps[IndexOf(apps, ret.id)].process = 2
    /\ apps[IndexOf(apps, ret.id)].status = "Running"

SingleIdOps == {"restart_process", "stop_process", "check_status",
                "version_update_process"}

\* C17: a single-id operation returning for an id that is not registered
\* returns NotFound for that id and leaves the registry and the processes
\* as they were
C17_NotFound ==
    [][(ret'.op \in SingleIdOps /\ IndexOf(apps, ret'.id) = 0)
       => /\ ret'.val = "NotFound"
          /\ ret'.id = th[ret'.t].id
          /\ apps' = apps
          /\ children' = children]_vars

C17_Witness ==
    /\ ret.op = "version_update_process"
    /\ ret.val = "NotFound"
    /\ Len(apps) = 1
    /\ apps[1].status = "Running"
    /\ children[apps[1].process].alive

\* the status column of the registry
Statuses(m) == [k \in 1..Len(m) |-> m[k].status]

\* C18: the step that returns SubProcess writes no status, and neither
\* does the part of a restart that comes before the wait for the
\* verification run, so the entry has the status it had before the call
C18_ErrorKeepsStatus ==
    /\ [][ret'.val = "SubProcess" => Statuses(apps') = Statuses(apps)]_vars
    /\ [][\A t \in Threads : th'[t].pc = "verify_wait"
            => Statuses(apps') = Statuses(apps)]_vars

C18_Witness ==
    /\ ret.op = "restart_process"
    /\ ret.val = "SubProcess"
    /\ apps[IndexOf(apps, ret.id)].status = "Running"
    /\ ~children[apps[IndexOf(apps, ret.id)].process].alive

\* C19: right after restart_process or version_update_process returns an
\* error for an entry, the entry is not Running unless some process is
\* alive
C19_FailedRestartNotRunning ==
    (/\ ret.op \in {"restart_process", "version_update_process"}
     /\ ret.val = "SubProcess")
    => \/ apps[IndexOf(apps, ret.id)].status # "Running"
       \/ \E p \in 1..Len(children) : children[p].alive

VersionOps == {"version_update_process", "version_update_all"}

\* C20: a step of version_update_process / version_update_all that spawns
\* the verification run ("--update" appended) is the first of the entry,
\* has the entry's Running process dead, and goes on to wait for that run;
\* a step that spawns the long-running instance (no "--update") comes from
\* that wait, with the verification run exited, and stores the handle
C20_VerifyOrder ==
    [][\A t \in Threads :
         (/\ th[t].op \in VersionOps
          /\ th'[t] # th[t]
          /\ Len(children') > Len(children))
         => LET n == Len(children')
                k == RestartTarget(t)
            IN /\ n = Len(children) + 1
               /\ IF children'[n].upd
                  THEN /\ th[t].pc = "in"
                       /\ th'[t].pc = "verify_wait"
                       /\ th'[t].pid = n
                       /\ apps' = apps
                       /\ (apps[k].status = "Running" /\ apps[k].process # None)
                            => ~children'[apps[k].process].alive
                  ELSE /\ th[t].pc = "verify_wait"
                       /\ children[th[t].pid].upd
                       /\ ~children[th[t].pid].alive
                       /\ apps'[k].process = n
                       /\ apps'[k].status = "Running"]_vars

C20_Witness ==
    /\ ret.op = "version_update_process"
    /\ ret.val = "Ok"
    /\ Len(children) = 3
    /\ ~children[1].alive /\ ~children[1].upd
    /\ ~children[2].alive /\ children[2].upd
    /\ children[3].alive /\ ~children[3].upd
    /\ apps[IndexOf(apps, ret.id)].process = 3

\* ---------------------------------------------- update_status, wait_for_exit

\* caller t runs one iteration of update_status' loop in this step
RefreshStep(t) ==
    /\ th[t].pc = "in"
    /\ th[t].op = "update_status"
    /\ th[t].i <= Len(apps)
    /\ th'[t].pc = "in"
    /\ th'[t].i = th[t].i + 1

\* C21: update_status sets a Running entry whose process has exited to
\* Stopped and clears its handle: whenever an iteration turns an entry
\* from Running to Stopped, the entry has no handle afterwards.
C21_RefreshClearsHandle ==
    [][\A t \in Threads :
          RefreshStep(t) =>
             LET i == th[t].i IN
             (apps[i].status = "Running" /\ apps'[i].status = "Stopped")
                => apps'[i].process = None]_vars

\* C22: update_status does not touch an entry that is already Stopped: an
\* iteration on a Stopped entry leaves the entry as it is.
C22_RefreshSkipsStopped ==
    [][\A t \in Threads :
          RefreshStep(t) =>
             LET i == th[t].i IN
             apps[i].status = "Stopped" => apps'[i] = apps[i]]_vars

\* C23: wait_for_exit returns only after every tracked process has
\* terminated, and when it returns every entry is Stopped.
C23_WaitForExit ==
    (ret.op = "wait_for_exit" /\ ret.val = "Ok") =>
        \A i \in 1..Len(apps) :
            /\ apps[i].status = "Stopped"
            /\ apps[i].process # None =>
                  (~children[apps[i].process].alive /\ children[apps[i].process].gone)

C23_Witness ==
    /\ ret.op = "wait_for_exit"
    /\ ret.val = "Ok"
    /\ \E i \in 1..Len(apps) : apps[i].process # None
    /\ \E i \in 1..Len(apps) : apps[i].process = None

\* C24: in every reachable state of the registry an entry whose status is
\* Running has an OS handle, in every variant.
C24_RunningHasHandle ==
    \A i \in 1..Len(apps) : apps[i].status = "Running" => apps[i].process # None

C24_Witness ==
    /\ ret.op = "update_status"
    /\ ret.val = "Ok"
    /\ \E i \in 1..Len(apps) : apps[i].status = "Running"
    /\ \E i \in 1..Len(apps) : apps[i].status = "Stopped"

\* C25: in every reachable state an entry whose status is Stopped has no
\* OS handle.
C25_StoppedHasNoHandle ==
    \A i \in 1..Len(apps) : apps[i].status = "Stopped" => apps[i].process = None

\* ------------------------------------------------------- order and identity

\* the ids that list_status returned, in the order of the Vec
ListedIds == [k \in 1..Len(ret.list) |-> ret.list[k][1]]

\* C26: the registry keeps first-registration order.  No step changes the
\* relative position of two registered ids and an id registered for the
\* first time goes behind all the others; list_status lists the ids in
\* that order; a batch starts at the first entry, writes only the entry it
\* is at and goes from an entry to the next one.
C26_InsertionOrder ==
    /\ [][\A a \in 1..Len(apps) :
             /\ IndexOf(apps', apps[a].id) = a
             /\ \A b \in (Len(apps) + 1)..Len(apps') :
                   \A k \in 1..Len(apps) : apps'[b].id # apps[k].id]_vars
    /\ [](ret.op = "list_status" => ListedIds = Order(apps))
    /\ [][\A t \in Threads :
             /\ (~InBatch(t) /\ th[t].pc # "in" /\ th'[t].pc = "in"
                    /\ th'[t].op \in BatchOps)
                   => th'[t].i = 1
             /\ (InBatch(t) /\ th'[t] # th[t])
                   => /\ \A j \in 1..Len(apps) : j # th[t].i => apps'[j] = apps[j]
                      /\ th'[t].pc # "idle" =>
                            /\ th'[t].op = th[t].op
                            /\ th'[t].i \in {th[t].i, th[t].i + 1}
                            /\ th'[t].i = th[t].i + 1 => th[t].i <= Len(apps)]_vars

\* add_process has just returned for the id registered first, with another
\* id registered after it: the entry was replaced where it was
C26_Witness ==
    /\ ret.op = "add_process"
    /\ Len(apps) = 2
    /\ ret.id = apps[1].id
    /\ apps[2].process # None

\* caller t is inside add_process, the write guard taken
Registering(t) == th[t].pc = "in" /\ th[t].op = "add_process"

\* C27: register calls of several callers for distinct ids all succeed and
\* none is lost.  The map never holds an id twice, at most one caller is
\* inside add_process at a time, and the step of a caller inside
\* add_process ends the call with its id registered, every other entry as
\* it was and the map longer by one when the id is new.
C27_ConcurrentRegister ==
    /\ [](\A a, b \in 1..Len(apps) : apps[a].id = apps[b].id => a = b)
    /\ [](\A t, u \in Threads : Registering(t) /\ Registering(u) => t = u)
    /\ [][\A t \in Threads :
             (Registering(t) /\ th'[t] # th[t])
                => /\ th'[t].pc = "idle"
                   /\ IndexOf(apps', th[t].id) # 0
                   /\ \A k \in 1..Len(apps) :
                         apps[k].id # th[t].id => apps'[k] = apps[k]
                   /\ Len(apps') = Len(apps)
                         + (IF IndexOf(apps, th[t].id) = 0 THEN 1 ELSE 0)]_vars

\* one caller inserts its id next to an id registered by add_process while
\* another caller waits for the write guard with a third call
C27_Witness ==
    \E t, u \in Threads :
        /\ t # u
        /\ variant = "std"
        /\ Registering(t)
        /\ th[u].pc = "acq"
        /\ th[u].id # th[t].id
        /\ Len(apps) = 1
        /\ apps[1].process = None
        /\ apps[1].id # th[t].id

\* C30: no operation removes an entry: every id that is registered before
\* a step is registered after it.
C30_NoRemoval ==
    [][\A k \in 1..Len(apps) :
          \E j \in 1..Len(apps') : apps'[j].id = apps[k].id]_vars

\* stop_all has returned Ok with entries that had been started: they are
\* all still there
C30_Witness ==
    /\ ret.op \in {"stop_all", "stop_process"}
    /\ ret.val = "Ok"
    /\ Len(apps) = 2
    /\ \E k \in 1..Len(apps) : apps[k].status = "Stopped" /\ apps[k].process # None

\* C29: an OS failure is given to the caller as an error value and never
\* ends the caller by a panic: no caller is ever in the panicked state.
C29_NoPanic == \A t \in Threads : th[t].pc # "panicked"

\* ------------------------------------------------------- request / response

\* C28: one exchange completes: a client that has written its request does
\* not stay in read_to_end for ever, and the server does not stay in its
\* read_to_end of an accepted connection for ever.
C28_ExchangeCompletes ==
    \A c \in Clients :
        /\ (conns[c].cpc = "reading") ~> (conns[c].cpc # "reading")
        /\ (conns[c].spc = "reading") ~> (conns[c].spc # "reading")

\* ------------------------------------------------------------ restart()

\* C31: the process restart() spawns gets the arguments of the current
\* process without the program name, the same elements in the same order.
C31_RestartArgs ==
    newargv # <<>> =>
        /\ Len(newargv) = Len(argv)
        /\ \A k \in 2..Len(argv) : newargv[k] = argv[k]

C31_Witness ==
    /\ newargv # <<>>
    /\ argv = <<Prog, "--port", "8080">>
    /\ exited = "restart"

\* ------------------------------------------------------------- teardown

\* C32: releasing the registry enters Drop::drop once, and that drop runs
\* stop_all: drop is never entered a second time, and the step that
\* enters it puts its caller into the teardown's stop_all.
C32_TeardownOnce ==
    /\ [](dropCalls <= 1)
    /\ [][dropCalls' # dropCalls => \E t \in Threads : th'[t].op = "drop"]_vars

\* ------------------------------------------------- restart and verification

\* the processes spawned by the step being taken
Spawned == (Len(children) + 1)..Len(children')

\* C33: restart_process and restart_all spawn one process per entry, with
\* the entry's own args; the run with "--update" appended is made by
\* version_update_process and version_update_all only: a step that spawns
\* a process with "--update" is a step of a caller inside one of those two.
C33_OnlyVerifyRunsUpdate ==
    [][\A p \in Spawned :
          children'[p].upd =>
             \E t \in Threads : th[t].op \in VersionOps /\ th'[t] # th[t]]_vars

\* C34: the respawn is not gated on the exit code of the verification run.
\* The step of version_update_process / version_update_all that follows the
\* wait either returns SubProcess with nothing written, or spawns the
\* long-running instance, stores its handle and sets the entry Running,
\* whatever code the verification run exited with.
C34_NotGatedOnExitCode ==
    [][\A t \in Threads :
         (/\ th[t].op \in VersionOps
          /\ th[t].pc = "verify_wait"
          /\ th'[t] # th[t])
         => LET n == Len(children')
                k == RestartTarget(t)
            IN \/ /\ th'[t].pc = "idle"
                  /\ ret'.val = "SubProcess"
                  /\ apps' = apps
                  /\ children' = children
               \/ /\ n = Len(children) + 1
                  /\ ~children'[n].upd
                  /\ apps'[k].process = n
                  /\ apps'[k].status = "Running"
                  /\ th'[t].pc = "idle" => ret'.val = "Ok"]_vars

\* version_update_process has returned Ok after a verification run that
\* exited with a failure code
C34_Witness ==
    /\ ret.op = "version_update_process"
    /\ ret.val = "Ok"
    /\ \E p \in 1..Len(children) : children[p].upd /\ children[p].code # 0
    /\ \A p \in 1..Len(children) : children[p].upd => children[p].code # 0
    /\ apps[IndexOf(apps, ret.id)].status = "Running"
    /\ children[apps[IndexOf(apps, ret.id)].process].alive

\* ------------------------------------------------- wait_for_exit and the lock

\* caller t is inside wait_for_exit
Waiting(t) == th[t].pc = "in" /\ th[t].op = "wait_for_exit"

\* caller t is inside wait_for_exit, at an entry whose process has not
\* ended
WaitingOnLive(t) ==
    /\ Waiting(t)
    /\ th[t].i <= Len(apps)
    /\ apps[th[t].i].process # None
    /\ ~children[apps[th[t].i].process].gone

\* C35: wait_for_exit holds the write guard all the time it is inside:
\* no other caller is inside the registry, with either kind of guard, so
\* none of their operations on the map completes; and while the process
\* it waits for has not ended the waiting caller does not move and the map
\* is not written.
C35_WaitHoldsLock ==
    /\ [](\A t \in Threads : Waiting(t) =>
             /\ writer = t
             /\ readers = {}
             /\ \A u \in Threads \ {t} : ~Inside(u))
    /\ [][\A t \in Threads : WaitingOnLive(t) =>
             /\ th'[t] = th[t]
             /\ apps' = apps
             /\ writer' = writer
             /\ \A u \in Threads \ {t} :
                   th'[u] # th[u] => (th[u].pc = "idle" /\ th'[u].pc \in {"idle", "acq"})]_vars

\* a caller waits for a live process while another one, its process
\* already spawned, waits for the write guard
C35_Witness ==
    \E t, u \in Threads :
        /\ t # u
        /\ WaitingOnLive(t)
        /\ children[apps[th[t].i].process].alive
        /\ th[u].pc = "acq"

\* ------------------------------------------------- processes and handles

\* process p is the one some entry's handle refers to
Referenced(p) == \E k \in 1..Len(apps) : apps[k].process = p

\* process p was spawned by an operation that has not returned yet and
\* still has the Child in a local (the spawn before the insert)
HeldByCaller(p) ==
    \E t \in Threads : th[t].pc \in {"acq", "in", "verify_wait"} /\ th[t].pid = p

\* C36: the registry does not lose a live process it spawned: every
\* long-running process that is still alive is referenced by the handle of
\* an entry (or is on its way into one).
C36_NoOrphan ==
    \A p \in DOMAIN children :
        (children[p].alive /\ ~children[p].upd) => (Referenced(p) \/ HeldByCaller(p))

\* ------------------------------------------------- later connections

\* C37: a connection whose client does not finish its request does not
\* keep the server from taking later connections: every established
\* connection that waits in the listener's queue is accepted in the end.
C37_LaterConnectionsAccepted ==
    \A c \in Clients :
        (conns[c].est /\ conns[c].spc = "none") ~> (conns[c].spc # "none")

====
